---- MODULE Spec2Model ----
(***************************************************************************)
(* Model of src/src/htmlmut.py: the HTML report generator for mutmut.      *)
(*                                                                         *)
(*   - the status lattice (MUTANT_STATUS2TEXT, MUTANT_STATUS2BG,           *)
(*     COMBINE_BGS) and the per-line severity fold,                        *)
(*   - get_mutations_for_each_line (the line-mutation aggregator),         *)
(*   - create_html_from_source (the report renderer),                      *)
(*   - highlight_code / handle_token / begin_indent (the highlighter).     *)
(*                                                                         *)
(* Strings of the program are sequences of atoms; an atom is one character *)
(* or one indivisible piece of markup (a tag, an HTML entity).             *)
(***************************************************************************)
EXTENDS Integers, Sequences, FiniteSets, TLC

VARIABLES
    \* get_mutations_for_each_line
    mutants,         \* the Mutant rows of the file
    todo,            \* sorted(mutants, key=id) not yet iterated
    line2mutations,  \* dict: line number -> list of [mutant, fragment]
    printed,         \* what print() wrote: the "lost mutation" messages
    \* create_html_from_source
    hl_code,         \* the highlighted listing handed to the renderer
    line_no, mut_no, index, txt_cls, bg, st, muts, result, output,
    pc,              \* position in create_html_report
    \* one evaluation of the combination step on given arguments
    cmb_cur, cmb_new, cmb_res, cmb_n,
    \* highlight_code
    tokens,          \* what the token stream has yielded so far
    out, line, last_pos

aggVars == <<mutants, todo, line2mutations, printed>>
renVars == <<hl_code, line_no, mut_no, index, txt_cls, bg, st, muts, result, output>>
cmbVars == <<cmb_cur, cmb_new, cmb_res, cmb_n>>
hlVars == <<tokens, out, line, last_pos>>
vars == <<mutants, todo, line2mutations, printed, hl_code, line_no, mut_no, index,
          txt_cls, bg, st, muts, result, output, pc,
          cmb_cur, cmb_new, cmb_res, cmb_n, tokens, out, line, last_pos>>

----------------------------------------------------------------------------
(* Bounds of the model. *)

MaxMutants == 3      \* mutants of one file
MaxHlLines == 2      \* lines of the highlighted listing in the report model
MaxFold == 4         \* entries of one line in the fold model
MaxCombine == 3      \* evaluations of the combination step in a row
MaxTokens == 3       \* tokens of a stream before its end marker
MaxSpan == 2         \* line breaks inside one string token

LineNumbers == {0, 1}
Indices == {0, 1, 2}
Gaps == {0, 1}       \* blanks between two tokens

----------------------------------------------------------------------------
(* Python helpers. *)

\* dict.get(key, default)
DictGet(d, key, default) == IF key \in DOMAIN d THEN d[key] ELSE default

\* the {} of COMBINE_BGS.get(txt_cls, {})
EmptyDict == [k \in {} |-> ""]

\* the characters str.splitlines() breaks a line at: line feed, carriage
\* return, form feed, vertical tab, the file, group and record separators,
\* next line, line separator, paragraph separator
LineBoundaries ==
    {"\n", "\r", "\f", "\\x0b", "\\x1c", "\\x1d", "\\x1e", "\\x85", "\\u2028", "\\u2029"}

\* str.splitlines(): the pieces between line boundaries ("\r\n" is one
\* boundary), no final empty piece
RECURSIVE SplitAcc(_, _, _)
SplitAcc(text, cur, acc) ==
    IF text = <<>>
    THEN IF cur = <<>> THEN acc ELSE Append(acc, cur)
    ELSE IF Head(text) = "\r" /\ Len(text) >= 2 /\ text[2] = "\n"
         THEN SplitAcc(Tail(Tail(text)), <<>>, Append(acc, cur))
         ELSE IF Head(text) \in LineBoundaries
              THEN SplitAcc(Tail(text), <<>>, Append(acc, cur))
              ELSE SplitAcc(Tail(text), Append(cur, Head(text)), acc)

SplitLines(text) == SplitAcc(text, <<>>, <<>>)

\* str.startswith(prefix)
StartsWith(s, prefix) ==
    /\ Len(s) >= Len(prefix)
    /\ SubSeq(s, 1, Len(prefix)) = prefix

\* '\n'.join(lines)
RECURSIVE JoinNl(_)
JoinNl(lines) ==
    IF lines = <<>> THEN <<>>
    ELSE IF Len(lines) = 1 THEN lines[1]
    ELSE lines[1] \o <<"\n">> \o JoinNl(Tail(lines))

\* len(f'{n}'): the number of decimal digits of n >= 0
RECURSIVE Digits(_)
Digits(n) == IF n < 10 THEN 1 ELSE 1 + Digits(n \div 10)

----------------------------------------------------------------------------
(* The status lattice. *)

BAD_TIMEOUT == "bad_timeout"
OK_SUSPICIOUS == "ok_suspicious"
BAD_SURVIVED == "bad_survived"
SKIPPED == "skipped"
UNTESTED == "untested"
OK_KILLED == "ok_killed"

\* a status tag outside the enumeration
UNRECOGNIZED == "unrecognized"

Statuses == {BAD_SURVIVED, BAD_TIMEOUT, SKIPPED, UNTESTED, OK_SUSPICIOUS, OK_KILLED}
AnyStatus == Statuses \cup {UNRECOGNIZED}

MUTANT_STATUS2TEXT ==
    (BAD_SURVIVED :> "Survivied") @@ (BAD_TIMEOUT :> "Timeout") @@
    (SKIPPED :> "Skipped") @@ (UNTESTED :> "Untested") @@
    (OK_SUSPICIOUS :> "Suspicious") @@ (OK_KILLED :> "Killed")

MUTANT_STATUS2BG ==
    (BAD_SURVIVED :> "bgred") @@ (BAD_TIMEOUT :> "bgorange") @@
    (SKIPPED :> "bgray") @@ (UNTESTED :> "bgred") @@
    (OK_SUSPICIOUS :> "bggreen") @@ (OK_KILLED :> "bggreen")

\* COMBINE_BGS with the bgred row letting a later good class through
COMBINE_BGS_RedYields ==
    ("bgred" :> (("bgred" :> "bgred") @@ ("bgorange" :> "bgred") @@
                 ("bggray" :> "bgred") @@ ("bggreen" :> "bggreen"))) @@
    ("bgorange" :> (("bgred" :> "bgred") @@ ("bgorange" :> "bgorange") @@
                    ("bggray" :> "bgorange") @@ ("bggreen" :> "bgorange"))) @@
    ("bgray" :> (("bgred" :> "bgred") @@ ("bgorange" :> "bgorange") @@
                 ("bggray" :> "bggray") @@ ("bggreen" :> "bggreen"))) @@
    ("bggreen" :> (("bgred" :> "bgred") @@ ("bgorange" :> "bgorange") @@
                   ("bggray" :> "bggreen") @@ ("bggreen" :> "bggreen")))

\* COMBINE_BGS with the bgorange row yielding to an incoming green
COMBINE_BGS_LastWins ==
    ("bgred" :> (("bgred" :> "bgred") @@ ("bgorange" :> "bgred") @@
                 ("bggray" :> "bgred") @@ ("bggreen" :> "bgred"))) @@
    ("bgorange" :> (("bgred" :> "bgred") @@ ("bgorange" :> "bgorange") @@
                    ("bggray" :> "bgorange") @@ ("bggreen" :> "bggreen"))) @@
    ("bgray" :> (("bgred" :> "bgred") @@ ("bgorange" :> "bgorange") @@
                 ("bggray" :> "bggray") @@ ("bggreen" :> "bggreen"))) @@
    ("bggreen" :> (("bgred" :> "bgred") @@ ("bgorange" :> "bgorange") @@
                   ("bggray" :> "bggreen") @@ ("bggreen" :> "bggreen")))

COMBINE_BGS ==
    ("bgred" :> (("bgred" :> "bgred") @@ ("bgorange" :> "bgred") @@
                 ("bggray" :> "bgred") @@ ("bggreen" :> "bgred"))) @@
    ("bgorange" :> (("bgred" :> "bgred") @@ ("bgorange" :> "bgorange") @@
                    ("bggray" :> "bgorange") @@ ("bggreen" :> "bgorange"))) @@
    ("bgray" :> (("bgred" :> "bgred") @@ ("bgorange" :> "bgorange") @@
                 ("bggray" :> "bggray") @@ ("bggreen" :> "bggreen"))) @@
    ("bggreen" :> (("bgred" :> "bgred") @@ ("bgorange" :> "bgorange") @@
                   ("bggray" :> "bggreen") @@ ("bggreen" :> "bggreen")))

\* every class name the two tables mention, as key or as value
ColorClasses == {"bgred", "bgorange", "bgray", "bggray", "bggreen"}

\* st = MUTANT_STATUS2TEXT.get(mutant.status, '--ERROR--')
StatusText(status) == DictGet(MUTANT_STATUS2TEXT, status, "--ERROR--")

\* bg = MUTANT_STATUS2BG.get(mutant.status, 'bgred')
StatusBg(status) == DictGet(MUTANT_STATUS2BG, status, "bgred")

\* txt_cls = COMBINE_BGS.get(txt_cls, {}).get(bg, 'bgred')
CombineBgs(cur, new) == DictGet(DictGet(COMBINE_BGS, cur, EmptyDict), new, "bgred")

\* txt_cls.replace('bg', 'txt') on the class names
ReplaceBgTxt(cls) ==
    CASE cls = "bgred" -> "txtred"
      [] cls = "bgorange" -> "txtorange"
      [] cls = "bgray" -> "txtray"
      [] cls = "bggray" -> "txtgray"
      [] cls = "bggreen" -> "txtgreen"

----------------------------------------------------------------------------
(* The mutation store's records and the diff engine, as the report uses    *)
(* them.                                                                   *)

\* a Mutant row: mutant.id, mutant.line.line_number, mutant.index, mutant.status
MutantAttrs == [line_number : LineNumbers, index : Indices, status : {OK_KILLED, BAD_SURVIVED}]

NoMutant == [line_number |-> -1, index |-> -1, status |-> "none"]

\* the mutants of one file: rows with distinct ids
MutantSets ==
    { { [id |-> i, line_number |-> f[i].line_number, index |-> f[i].index,
         status |-> f[i].status] : i \in {j \in 1 .. MaxMutants : f[j] # NoMutant} }
      : f \in [1 .. MaxMutants -> MutantAttrs \cup {NoMutant}] }

\* _get_unified_diff(source, filename, RelativeMutationID(...), ...): the
\* two header lines, the removed line and the added line
UnifiedDiff(mutant) ==
    <<"-", "-", "-", " ", "f", "\n",
      "+", "+", "+", " ", "f", "\n",
      "-", "x", "\n",
      "+", "y", "\n">>

\* sorted(mutants, key=lambda m: m.id)
RECURSIVE SortById(_)
SortById(ms) ==
    IF ms = {} THEN <<>>
    ELSE LET m == CHOOSE x \in ms : \A y \in ms : x.id <= y.id
         IN <<m>> \o SortById(ms \ {m})

----------------------------------------------------------------------------
(* get_added_lines and get_mutations_for_each_line. *)

RECURSIVE AddedOf(_)
AddedOf(lines) ==
    IF lines = <<>> THEN <<>>
    ELSE LET l == Head(lines)
         IN IF StartsWith(l, <<"+">>) /\ ~StartsWith(l, <<"+", "+", "+">>)
            THEN <<Tail(l)>> \o AddedOf(Tail(lines))
            ELSE AddedOf(Tail(lines))

GetAddedLines(text) == JoinNl(AddedOf(SplitLines(text)))

\* the consistency check without its upper side
IndexAtLeast(mutant, lst) == mutant.index >= Len(lst)

\* mutant.index == len(line2mutations[mutant.line.line_number])
IndexMatches(mutant, lst) == mutant.index = Len(lst)

NoMutations == [k \in {} |-> <<>>]

\* one iteration of the for loop of get_mutations_for_each_line
AggStep ==
    /\ pc = "aggregate"
    /\ todo # <<>>
    /\ LET mutant == Head(todo)
           diff == UnifiedDiff(mutant)
           ln == mutant.line_number
           keyed == IF ln \notin DOMAIN line2mutations
                    THEN line2mutations @@ (ln :> <<>>)
                    ELSE line2mutations
       IN IF IndexMatches(mutant, keyed[ln])
          THEN /\ line2mutations' =
                     [keyed EXCEPT ![ln] = Append(@, <<mutant, GetAddedLines(diff)>>)]
               /\ UNCHANGED printed
          ELSE /\ line2mutations' = keyed
               /\ printed' = Append(printed, [line_number |-> ln, index |-> mutant.index])
    /\ todo' = Tail(todo)
    /\ UNCHANGED <<mutants, pc, renVars, cmbVars, hlVars>>

\* the loop is exhausted: return line2mutations
AggReturn ==
    /\ pc = "aggregate"
    /\ todo = <<>>
    /\ pc' = "highlight"
    /\ UNCHANGED <<aggVars, renVars, cmbVars, hlVars>>

----------------------------------------------------------------------------
(* create_html_report between the aggregator and the renderer, and         *)
(* create_html_from_source.                                                *)

\* a highlighted listing of n display lines
Listing(n) == [i \in 1 .. n |-> <<"code">>]

\* hl_code = highlight_code(source)
HighlightSource ==
    /\ pc = "highlight"
    /\ \E n \in 1 .. MaxHlLines : hl_code' = Listing(n)
    /\ pc' = "render"
    /\ UNCHANGED <<aggVars, line_no, mut_no, index, txt_cls, bg, st, muts, result,
                   output, cmbVars, hlVars>>

\* ln_w = len(f'{len(hl_code)}') + 1
LnW == Digits(Len(hl_code)) + 1

\* line_no = -1; result = ''; mut_no = 0
RenderInit ==
    /\ pc = "render"
    /\ line_no' = -1
    /\ result' = <<>>
    /\ mut_no' = 0
    /\ pc' = "line"
    /\ UNCHANGED <<aggVars, hl_code, index, txt_cls, bg, st, muts, output, cmbVars, hlVars>>

\* line_no in line2mutations
HasMutations(ln) == ln \in DOMAIN line2mutations

\* the head of the outer loop body: the next line, its block opened when
\* the line is a key of the map
RenderLine ==
    /\ pc = "line"
    /\ line_no + 1 < Len(hl_code)
    /\ line_no' = line_no + 1
    /\ txt_cls' = "bggreen"
    /\ IF HasMutations(line_no')
       THEN /\ index' = 0
            /\ muts' = <<[tag |-> "div", id |-> line_no']>>
            /\ pc' = "rows"
       ELSE /\ muts' = <<>>
            /\ pc' = "badge"
            /\ UNCHANGED index
    /\ UNCHANGED <<aggVars, hl_code, mut_no, bg, st, result, output, cmbVars, hlVars>>

\* one iteration of the inner loop: one row of the block; the row keeps
\* the fragment that highlight_code(item)[0] is the markup of
RenderRow ==
    /\ pc = "rows"
    /\ index < Len(line2mutations[line_no])
    /\ LET mutant == line2mutations[line_no][index + 1][1]
           item == line2mutations[line_no][index + 1][2]
       IN /\ st' = StatusText(mutant.status)
          /\ bg' = StatusBg(mutant.status)
          /\ txt_cls' = CombineBgs(txt_cls, bg')
          /\ mut_no' = mut_no + 1
          /\ muts' = Append(muts, [tag |-> "row", cls |-> bg', ln_w |-> LnW,
                                   hl_item |-> item, st |-> st',
                                   mut_no |-> mut_no', ndx |-> index])
    /\ index' = index + 1
    /\ UNCHANGED <<aggVars, hl_code, line_no, result, output, pc, cmbVars, hlVars>>

\* the inner loop is exhausted: close the block, turn the class into a text class
CloseBlock ==
    /\ pc = "rows"
    /\ index = Len(line2mutations[line_no])
    /\ muts' = Append(muts, [tag |-> "/div", id |-> line_no])
    /\ txt_cls' = ReplaceBgTxt(txt_cls)
    /\ pc' = "badge"
    /\ UNCHANGED <<aggVars, hl_code, line_no, mut_no, index, bg, st, result, output,
                   cmbVars, hlVars>>

\* the badge, the paragraph of the line and its block
EmitLine ==
    /\ pc = "badge"
    /\ LET mut == IF HasMutations(line_no)
                  THEN <<[cls |-> txt_cls, target |-> line_no,
                          count |-> Len(line2mutations[line_no])]>>
                  ELSE <<>>
       IN result' = Append(result, [tag |-> "line", line_no |-> line_no,
                                    ln_w |-> LnW, line |-> hl_code[line_no + 1],
                                    mut |-> mut]) \o muts
    /\ pc' = "line"
    /\ UNCHANGED <<aggVars, hl_code, line_no, mut_no, index, txt_cls, bg, st, muts,
                   output, cmbVars, hlVars>>

\* the outer loop is exhausted: fill the page template and write it
WriteReport ==
    /\ pc = "line"
    /\ line_no + 1 >= Len(hl_code)
    /\ output' = <<[template |-> "html_content", highlighted_code |-> result]>>
    /\ pc' = "done"
    /\ UNCHANGED <<aggVars, hl_code, line_no, mut_no, index, txt_cls, bg, st, muts,
                   result, cmbVars, hlVars>>

Render == RenderInit \/ RenderLine \/ RenderRow \/ CloseBlock \/ EmitLine \/ WriteReport

----------------------------------------------------------------------------
(* The combination step evaluated on given arguments. *)

\* cmb_res = COMBINE_BGS.get(cmb_cur, {}).get(cmb_new, 'bgred')
CombineApply ==
    /\ pc = "combine"
    /\ cmb_res = ""
    /\ cmb_res' = CombineBgs(cmb_cur, cmb_new)
    /\ cmb_n' = cmb_n + 1
    /\ UNCHANGED <<aggVars, renVars, pc, cmb_cur, cmb_new, hlVars>>

\* the result becomes the accumulated class and meets another class
CombineAgain ==
    /\ pc = "combine"
    /\ cmb_res # ""
    /\ cmb_n < MaxCombine
    /\ cmb_cur' = cmb_res
    /\ cmb_new' \in ColorClasses
    /\ cmb_res' = ""
    /\ UNCHANGED <<aggVars, renVars, pc, cmb_n, hlVars>>

----------------------------------------------------------------------------
(* Specifications. *)

RenIdle ==
    /\ hl_code = <<>>
    /\ line_no = -1
    /\ mut_no = 0
    /\ index = 0
    /\ txt_cls = "bggreen"
    /\ bg = ""
    /\ st = ""
    /\ muts = <<>>
    /\ result = <<>>
    /\ output = <<>>

CmbIdle ==
    /\ cmb_cur = ""
    /\ cmb_new = ""
    /\ cmb_res = ""
    /\ cmb_n = 0

HlIdle ==
    /\ tokens = <<>>
    /\ out = <<>>
    /\ line = <<>>
    /\ last_pos = 0

\* create_html_report at the call of get_mutations_for_each_line for one file
Init ==
    /\ pc = "aggregate"
    /\ mutants \in MutantSets
    /\ todo = SortById(mutants)
    /\ line2mutations = NoMutations
    /\ printed = <<>>
    /\ RenIdle
    /\ CmbIdle
    /\ HlIdle

Next == AggStep \/ AggReturn \/ HighlightSource \/ Render

Spec == Init /\ [][Next]_vars

\* the entries of one line, one per status, as the aggregator builds them
LineEntries(sts) ==
    [j \in 1 .. Len(sts) |->
        LET mutant == [id |-> j, line_number |-> 0, index |-> j - 1, status |-> sts[j]]
        IN <<mutant, GetAddedLines(UnifiedDiff(mutant))>>]

StatusSeqs == UNION { [1 .. n -> AnyStatus] : n \in 0 .. MaxFold }

\* create_html_from_source called on a one-line listing whose line holds
\* mutants of any statuses
InitFold ==
    /\ pc = "render"
    /\ mutants = {}
    /\ todo = <<>>
    /\ printed = <<>>
    /\ \E sts \in StatusSeqs : line2mutations = (0 :> LineEntries(sts))
    /\ hl_code = Listing(1)
    /\ line_no = -1
    /\ mut_no = 0
    /\ index = 0
    /\ txt_cls = "bggreen"
    /\ bg = ""
    /\ st = ""
    /\ muts = <<>>
    /\ result = <<>>
    /\ output = <<>>
    /\ CmbIdle
    /\ HlIdle

NextFold == Render

SpecFold == InitFold /\ [][NextFold]_vars

\* the combination step on any two class names
InitCombine ==
    /\ pc = "combine"
    /\ mutants = {}
    /\ todo = <<>>
    /\ line2mutations = NoMutations
    /\ printed = <<>>
    /\ RenIdle
    /\ cmb_cur \in ColorClasses
    /\ cmb_new \in ColorClasses
    /\ cmb_res = ""
    /\ cmb_n = 0
    /\ HlIdle

NextCombine == CombineApply \/ CombineAgain

SpecCombine == InitCombine /\ [][NextCombine]_vars

----------------------------------------------------------------------------
(* The highlighter: span, begin_indent, handle_token.                      *)

\* html.escape(text): the five characters it replaces, one entity each
EscapeChar(c) ==
    CASE c = "&" -> "&amp;"
      [] c = "<" -> "&lt;"
      [] c = ">" -> "&gt;"
      [] c = "\"" -> "&quot;"
      [] c = "'" -> "&#x27;"
      [] OTHER -> c

Escape(text) == [i \in 1 .. Len(text) |-> EscapeChar(text[i])]

SpanOpen(key) ==
    CASE key = "k" -> "<span class=\"k\">"
      [] key = "s" -> "<span class=\"s\">"
      [] key = "n" -> "<span class=\"n\">"
      [] key = "c" -> "<span class=\"c\">"

\* f'<span class="{key}">{html.escape(text)}</span>'
Span(text, key) == <<SpanOpen(key)>> \o Escape(text) \o <<"</span>">>

SpanKey(val) == Span(val, "k")
SpanStr(val) == Span(val, "s")
SpanNum(val) == Span(val, "n")
SpanCmt(val) == Span(val, "c")

\* n * " "
Blanks(n) == [i \in 1 .. n |-> " "]

BeginIndent(ln, start, lastPos) ==
    IF ln = <<>>
    THEN IF start[2] > 0 THEN ln \o Blanks(start[2]) ELSE ln
    ELSE IF start[2] > lastPos THEN ln \o Blanks(start[2] - lastPos) ELSE ln

\* the token kinds of tokenize that handle_token tells apart
NAME == "NAME"
NUMBER == "NUMBER"
STRING_ == "STRING"
COMMENT == "COMMENT"
OP == "OP"
NL == "NL"
NEWLINE == "NEWLINE"
ENDMARKER == "ENDMARKER"

\* keyword.iskeyword(tokval), on the words of the model
IsKeyword(tokval) == tokval \in {<<"i", "f">>}

\* the completed lines of a multi-line string: the middle fragments, one
\* display line each
RECURSIVE FlushEach(_, _)
FlushEach(o, frags) ==
    IF frags = <<>> THEN o
    ELSE FlushEach(Append(o, SpanStr(Head(frags))), Tail(frags))

\* handle_token: out after the call and the line it returns
HandleToken(o, ln, toknum, tokval, start, stop) ==
    IF toknum = NAME /\ IsKeyword(tokval)
    THEN [out |-> o, line |-> ln \o SpanKey(tokval)]
    ELSE IF toknum = NUMBER
    THEN [out |-> o, line |-> ln \o SpanNum(tokval)]
    ELSE IF toknum = STRING_
    THEN IF stop[1] > start[1]
         THEN LET mline == SplitLines(tokval)
              IN [out  |-> FlushEach(Append(o, ln \o SpanStr(mline[1])),
                                     SubSeq(mline, 2, Len(mline) - 1)),
                  line |-> SpanStr(mline[Len(mline)])]
         ELSE [out |-> o, line |-> ln \o SpanStr(tokval)]
    ELSE IF toknum = COMMENT
    THEN [out |-> o, line |-> ln \o SpanCmt(tokval)]
    ELSE IF toknum \in {NL, NEWLINE, ENDMARKER}
    THEN [out |-> Append(o, ln), line |-> <<>>]
    ELSE [out |-> o, line |-> ln \o Escape(tokval)]

----------------------------------------------------------------------------
(* The token stream of tokenize.generate_tokens, as far as its positions   *)
(* and kinds go.                                                           *)

\* one lexeme of each kind that lies on one physical line
Lexemes ==
    { [toknum |-> NAME, tokval |-> <<"i", "f">>],
      [toknum |-> NAME, tokval |-> <<"x">>],
      [toknum |-> NUMBER, tokval |-> <<"1">>],
      [toknum |-> STRING_, tokval |-> <<"'", "'">>],
      [toknum |-> COMMENT, tokval |-> <<"#">>],
      [toknum |-> OP, tokval |-> <<"<">>] }

\* the text of a string token that spans lines: its part on the first
\* line (plain, or with a form feed in it), on a middle line, on the last
FirstFrags == { <<"'", "a">>, <<"'", "\f", "a">> }
MidFrag == <<"b">>
LastFrag == <<"c", "'">>

RECURSIVE MidLines(_)
MidLines(k) == IF k = 0 THEN <<>> ELSE <<"\n">> \o MidFrag \o MidLines(k - 1)

\* the text of a string token with k line breaks in it
MultiStr(first, k) == first \o MidLines(k - 1) \o <<"\n">> \o LastFrag

LastToken == tokens[Len(tokens)]

\* where the next token can start: behind the last one, or at the start of
\* the next physical line after a line break
Pos ==
    IF tokens = <<>> THEN <<1, 0>>
    ELSE IF LastToken.toknum \in {NL, NEWLINE}
         THEN <<LastToken.start[1] + 1, 0>>
         ELSE LastToken.stop

AtLineStart == tokens = <<>> \/ LastToken.toknum \in {NL, NEWLINE}

\* the logical line in progress holds a token that is no comment
HasCode ==
    \E i \in 1 .. Len(tokens) :
       /\ tokens[i].toknum \notin {NL, NEWLINE, COMMENT}
       /\ \A j \in i .. Len(tokens) : tokens[j].toknum \notin {NL, NEWLINE}

TextToken(lex, row, col) ==
    [toknum |-> lex.toknum, tokval |-> lex.tokval,
     start |-> <<row, col>>, stop |-> <<row, col + Len(lex.tokval)>>]

\* a comment runs to the end of its physical line
AfterComment == tokens # <<>> /\ LastToken.toknum = COMMENT

\* the tokens the stream can yield next
NextTokens ==
    IF Len(tokens) < MaxTokens
    THEN   \* a token on the current physical line
           { TextToken(lex, Pos[1], Pos[2] + g)
             : lex \in IF AfterComment THEN {} ELSE Lexemes, g \in Gaps }
      \cup \* a token after a backslash continuation of a line that holds
           \* code: no line-break token in between
           { TextToken(lex, Pos[1] + 1, 0)
             : lex \in IF HasCode /\ ~AfterComment THEN Lexemes ELSE {} }
      \cup \* a string token that ends k lines further down
           { [toknum |-> STRING_, tokval |-> MultiStr(first, k),
              start |-> <<Pos[1], Pos[2] + g>>,
              stop |-> <<Pos[1] + k, Len(LastFrag)>>]
             : first \in FirstFrags,
               k \in IF AfterComment THEN {} ELSE 1 .. MaxSpan, g \in Gaps }
      \cup \* the line break
           { [toknum |-> IF HasCode THEN NEWLINE ELSE NL, tokval |-> <<"\n">>,
              start |-> Pos, stop |-> <<Pos[1], Pos[2] + 1>>] }
      \cup \* the end marker, on a line of its own
           { [toknum |-> ENDMARKER, tokval |-> <<>>, start |-> Pos, stop |-> Pos]
             : x \in IF AtLineStart THEN {1} ELSE {} }
    ELSE   \* the stream ends: the line break that is due, then the end marker
           IF AtLineStart
           THEN { [toknum |-> ENDMARKER, tokval |-> <<>>, start |-> Pos, stop |-> Pos] }
           ELSE { [toknum |-> IF HasCode THEN NEWLINE ELSE NL, tokval |-> <<"\n">>,
                   start |-> Pos, stop |-> <<Pos[1], Pos[2] + 1>>] }

\* f'{exc}': the description of the TokenError
ExcText == <<"EOF in multi-line statement">>

----------------------------------------------------------------------------
(* highlight_code. *)

\* one iteration of the for loop over the tokens
HlToken ==
    /\ pc = "hl_loop"
    /\ \E tok \in NextTokens :
          LET indented == BeginIndent(line, tok.start, last_pos)
              r == HandleToken(out, indented, tok.toknum, tok.tokval, tok.start, tok.stop)
          IN /\ tokens' = Append(tokens, tok)
             /\ last_pos' = tok.stop[2]
             /\ out' = r.out
             /\ line' = r.line
             /\ pc' = IF tok.toknum = ENDMARKER THEN "hl_exhausted" ELSE "hl_loop"
    /\ UNCHANGED <<aggVars, renVars, cmbVars>>

\* the stream is exhausted: if line: out += [line]; return out
HlFinish ==
    /\ pc = "hl_exhausted"
    /\ out' = IF line # <<>> THEN Append(out, line) ELSE out
    /\ pc' = "hl_done"
    /\ UNCHANGED <<aggVars, renVars, cmbVars, tokens, line, last_pos>>

\* the stream raises TokenError instead of yielding: except ... out += [f'{exc}']
HlTokenError ==
    /\ pc = "hl_loop"
    /\ out' = Append(out, ExcText)
    /\ pc' = "hl_done"
    /\ UNCHANGED <<aggVars, renVars, cmbVars, tokens, line, last_pos>>

\* highlight_code(source) at the head of its loop
InitHL ==
    /\ pc = "hl_loop"
    /\ mutants = {}
    /\ todo = <<>>
    /\ line2mutations = NoMutations
    /\ printed = <<>>
    /\ RenIdle
    /\ CmbIdle
    /\ tokens = <<>>
    /\ out = <<>>
    /\ line = <<>>
    /\ last_pos = 0

NextHL == HlToken \/ HlFinish \/ HlTokenError

SpecHL == InitHL /\ [][NextHL]_vars

----------------------------------------------------------------------------
(* Properties of the aggregator. *)

\* the mutants the loop has iterated over
Processed == { m \in mutants : \A k \in 1 .. Len(todo) : todo[k] # m }

\* the mutants that sit in the map
Kept ==
    { m \in mutants : /\ m.line_number \in DOMAIN line2mutations
                      /\ \E j \in 1 .. Len(line2mutations[m.line_number]) :
                            line2mutations[m.line_number][j][1] = m }

\* the indices of the mutants of line ln, in ascending id order
RECURSIVE IndicesOf(_, _)
IndicesOf(ms, ln) ==
    IF ms = <<>> THEN <<>>
    ELSE IF Head(ms).line_number = ln
         THEN <<Head(ms).index>> \o IndicesOf(Tail(ms), ln)
         ELSE IndicesOf(Tail(ms), ln)

EntryCount(ln) == IF ln \in DOMAIN line2mutations THEN Len(line2mutations[ln]) ELSE 0

ReportedFor(ln) == { k \in 1 .. Len(printed) : printed[k].line_number = ln }

\* C1: the aggregator keeps a mutant exactly when its index equals the number
\* of mutants already kept for its line, and otherwise prints one message and
\* goes on; so the entry at position j of every list has index j, every
\* iterated mutant is either kept once or reported once, indices [0,1,2] on a
\* line give three entries and indices [0,2] give one entry and one message.
\* Stated of the loop and of the map it returns; nothing writes the map later.
C1_AggregatorConsistency ==
    pc \in {"aggregate", "highlight"} =>
       /\ \A ln \in DOMAIN line2mutations :
             \A j \in 1 .. Len(line2mutations[ln]) :
                /\ line2mutations[ln][j][1].index = j - 1
                /\ line2mutations[ln][j][1].line_number = ln
                /\ line2mutations[ln][j][1] \in Processed
                /\ \A i \in 1 .. (j - 1) :
                      line2mutations[ln][i][1].id < line2mutations[ln][j][1].id
       /\ \A m \in Processed :
             (m \in Kept) <=>
                (m.index = Cardinality({ k \in Kept : /\ k.line_number = m.line_number
                                                      /\ k.id < m.id }))
       /\ Kept \subseteq Processed
       /\ Len(printed) = Cardinality(Processed \ Kept)
       /\ \A m \in Processed \ Kept :
             \E k \in 1 .. Len(printed) :
                printed[k] = [line_number |-> m.line_number, index |-> m.index]
       /\ pc # "aggregate" => Processed = mutants
       /\ pc # "aggregate" =>
             LET sorted == SortById(mutants)
             IN \A ln \in LineNumbers :
                   LET indices == IndicesOf(sorted, ln)
                   IN /\ indices = <<0, 1, 2>> => EntryCount(ln) = 3
                      /\ indices = <<0, 2>> => /\ EntryCount(ln) = 1
                                               /\ Cardinality(ReportedFor(ln)) = 1

\* the aggregator has returned from a line with indices [0,2]: one entry,
\* one message
C1_Witness ==
    /\ pc = "highlight"
    /\ \E ln \in LineNumbers :
          /\ IndicesOf(SortById(mutants), ln) = <<0, 2>>
          /\ EntryCount(ln) = 1
          /\ printed = <<[line_number |-> ln, index |-> 2]>>

----------------------------------------------------------------------------
(* Properties of the renderer. *)

\* the position of the paragraph that row or block element i stands under
ParaOf(i) == CHOOSE p \in 1 .. i : /\ result[p].tag = "line"
                                   /\ \A q \in (p + 1) .. i : result[q].tag # "line"

\* C5: a source line carries a badge and a block iff it has at least one
\* mutation entry; the badge shows the number of entries, never 0, and no
\* block is empty.
C5_BadgeIffEntries ==
    \A i \in 1 .. Len(result) :
       /\ result[i].tag = "line" =>
             /\ (result[i].mut # <<>>) <=> (EntryCount(result[i].line_no) > 0)
             /\ result[i].mut # <<>> =>
                   /\ result[i].mut[1].count = EntryCount(result[i].line_no)
                   /\ result[i].mut[1].count >= 1
             /\ (i < Len(result) /\ result[i + 1].tag = "div")
                   <=> (EntryCount(result[i].line_no) > 0)
       /\ result[i].tag = "div" => result[i + 1].tag = "row"

RECURSIVE SumEntries(_)
SumEntries(lns) ==
    IF lns = {} THEN 0
    ELSE LET ln == CHOOSE x \in lns : TRUE
         IN Len(line2mutations[ln]) + SumEntries(lns \ {ln})

Rows == SelectSeq(result, LAMBDA r : r.tag = "row")

\* C9: in the written report every entry of the map is one row under the
\* paragraph of its line, and the rows are numbered 1..N, N the number of
\* entries of the map.
C9_EveryEntryRendered ==
    pc = "done" =>
       /\ Len(Rows) = SumEntries(DOMAIN line2mutations)
       /\ \A k \in 1 .. Len(Rows) : Rows[k].mut_no = k
       /\ \A ln \in DOMAIN line2mutations :
             \A j \in 1 .. Len(line2mutations[ln]) :
                \E i \in 1 .. Len(result) :
                   /\ result[i].tag = "row"
                   /\ result[i].ndx = j - 1
                   /\ result[i].hl_item = line2mutations[ln][j][2]
                   /\ result[ParaOf(i)].line_no = ln

----------------------------------------------------------------------------
(* Properties of the severity fold. *)

\* the statuses of the entries of the line being rendered
LineStatuses ==
    [j \in 1 .. Len(line2mutations[line_no]) |-> line2mutations[line_no][j][1].status]

HasSurvived(n) == \E j \in 1 .. n : LineStatuses[j] = BAD_SURVIVED

\* the folded class of a sequence of statuses, from the start value
RECURSIVE FoldFrom(_, _)
FoldFrom(cls, sts) ==
    IF sts = <<>> THEN cls
    ELSE FoldFrom(CombineBgs(cls, StatusBg(Head(sts))), Tail(sts))

Permuted(sts, p) == [j \in 1 .. Len(sts) |-> sts[p[j]]]

\* C3: the fold follows the dominance table on the classes the status table
\* assigns: a line of timeout, skipped, killed and suspicious mutants ends
\* orange when one of them timed out and green otherwise, so a line of only
\* skipped and killed mutants is never red or orange.
C3_DominanceTable ==
    (/\ pc = "rows"
     /\ index = Len(LineStatuses)
     /\ \A j \in 1 .. index :
           LineStatuses[j] \in {BAD_TIMEOUT, SKIPPED, OK_KILLED, OK_SUSPICIOUS})
    => txt_cls = IF \E j \in 1 .. index : LineStatuses[j] = BAD_TIMEOUT
                 THEN "bgorange" ELSE "bggreen"

\* C4: once an entry with status survived has been folded, the accumulated
\* class is red and stays red whatever follows, and the badge of the line is
\* txtred.
C4_RedAbsorbing ==
    /\ (pc = "rows" /\ HasSurvived(index)) => txt_cls = "bgred"
    /\ (pc = "badge" /\ HasMutations(line_no) /\ HasSurvived(Len(LineStatuses)))
          => txt_cls = "txtred"
    /\ \A i \in 1 .. Len(result) :
          (/\ result[i].tag = "line"
           /\ \E j \in 1 .. EntryCount(result[i].line_no) :
                 line2mutations[result[i].line_no][j][1].status = BAD_SURVIVED)
          => /\ result[i].mut # <<>>
             /\ result[i].mut[1].cls = "txtred"

\* a survived mutant was folded first and a killed one after it
C4_Witness ==
    /\ pc = "rows"
    /\ index = 2
    /\ LineStatuses[1] = BAD_SURVIVED
    /\ LineStatuses[2] = OK_KILLED
    /\ txt_cls = "bgred"

\* C10: when the entries of a line are folded, the class is the one that
\* every permutation of their statuses folds to from green.
C10_OrderIndependent ==
    (pc = "rows" /\ index = Len(LineStatuses)) =>
       \A p \in Permutations(1 .. Len(LineStatuses)) :
          FoldFrom("bggreen", Permuted(LineStatuses, p)) = txt_cls

\* three statuses of three different classes have been folded
C10_Witness ==
    /\ pc = "rows"
    /\ index = 3
    /\ Len(LineStatuses) = 3
    /\ LineStatuses = <<OK_KILLED, BAD_TIMEOUT, OK_SUSPICIOUS>>
    /\ txt_cls = "bgorange"

\* C2: the combination of a class with itself is that class.
C2_Idempotent ==
    (cmb_res # "" /\ cmb_cur = cmb_new) => cmb_res = cmb_cur

----------------------------------------------------------------------------
(* Properties of the highlighter. *)

\* highlight_code has returned through its except clause
Raised == pc = "hl_done" /\ (tokens = <<>> \/ LastToken.toknum # ENDMARKER)

\* the string token spans more than one physical line
IsMultiline(t) == t.toknum = STRING_ /\ t.stop[1] > t.start[1]

IsLineEnd(t) == t.toknum \in {NL, NEWLINE, ENDMARKER}

\* the physical lines of the source: the end marker sits on the line after
\* the last one
PhysicalLines == LastToken.start[1] - 1

\* C6: after a lexical error the result holds what was produced so far, the
\* markup of the line in progress included, and the error description as
\* its last line.
C6_ErrorKeepsProgress ==
    Raised =>
       /\ out # <<>>
       /\ out[Len(out)] = ExcText
       /\ line # <<>> => /\ Len(out) >= 2
                         /\ out[Len(out) - 1] = line

\* C7: for a stream without a multi-line string token, the result has as
\* many display lines as the source has physical lines, plus at most the
\* one line the end marker flushes.
C7_LinePerPhysicalLine ==
    (/\ pc = "hl_done"
     /\ ~Raised
     /\ \A i \in 1 .. Len(tokens) : ~IsMultiline(tokens[i]))
    => /\ Len(out) >= PhysicalLines
       /\ Len(out) <= PhysicalLines + 1

\* the text of a token cut at its line feeds: its part on each physical line
RECURSIVE PhysicalParts(_, _)
PhysicalParts(text, cur) ==
    IF text = <<>> THEN <<cur>>
    ELSE IF Head(text) = "\n"
         THEN <<cur>> \o PhysicalParts(Tail(text), <<>>)
         ELSE PhysicalParts(Tail(text), Append(cur, Head(text)))

\* C8: a string token from line a to line b > a completes b - a display
\* lines and opens one more: its first fragment ends the line in progress
\* (behind the gap to the token before it), every middle fragment is a line
\* of its own, its last fragment is the new line in progress, not flushed;
\* a token that follows on line b is appended to that fragment behind the
\* gap between the end column of the string and its own start column.
C8_MultilineString ==
    [][(pc = "hl_loop" /\ Len(tokens') = Len(tokens) + 1) =>
          LET t == tokens'[Len(tokens')]
          IN /\ IsMultiline(t) =>
                   LET n == t.stop[1] - t.start[1]
                       parts == PhysicalParts(t.tokval, <<>>)
                       gap == IF AtLineStart THEN t.start[2]
                              ELSE t.start[2] - LastToken.stop[2]
                   IN /\ Len(out') = Len(out) + n
                      /\ SubSeq(out', 1, Len(out)) = out
                      /\ out'[Len(out) + 1] = line \o Blanks(gap) \o SpanStr(parts[1])
                      /\ \A i \in 2 .. n : out'[Len(out) + i] = SpanStr(parts[i])
                      /\ line' = SpanStr(parts[n + 1])
             /\ (/\ tokens # <<>>
                 /\ IsMultiline(LastToken)
                 /\ t.start[1] = LastToken.stop[1]
                 /\ ~IsMultiline(t)
                 /\ ~IsLineEnd(t)) =>
                   LET head == SpanStr(LastFrag) \o Blanks(t.start[2] - LastToken.stop[2])
                   IN /\ out' = out
                      /\ Len(line') > Len(head)
                      /\ SubSeq(line', 1, Len(head)) = head
                      /\ line'[Len(head) + 1] # " "
       ]_vars

====
